---------------------------- MODULE Spec2Model ----------------------------
(***************************************************************************)
(* Contaminant Explorer (src/streamlit_app.py): a Streamlit script that is *)
(* re-executed top to bottom on every user interaction.  The state kept    *)
(* between executions is the two uploaded files and the widget values; the *)
(* tables derived by one execution are what the page shows until the next. *)
(*                                                                         *)
(* Data representation.                                                    *)
(*  - a CSV cell holding a number is a natural; an empty cell is NaN and a *)
(*    cell with non-numeric text (such as "abc") is Text;                  *)
(*  - a timestamp is a natural counting ticks of a small calendar          *)
(*    (TicksPerDay ticks a day, DaysPerMonth days a month, MonthsPerYear   *)
(*    months a year); tick 0 of a day is midnight; an empty date cell is   *)
(*    NaN (pandas NaT) and an unparseable one is Text;                     *)
(*  - a characteristic name is a sequence of characters, <<>> for an empty *)
(*    cell; a station identifier is a string, NoId for an empty cell;      *)
(*  - a mean is the pair <<sum, count>>.                                   *)
(*  The imports of the script are not part of the source file; pandas,     *)
(*  pd, streamlit and st are taken to be bound as their uses require.      *)
(***************************************************************************)
EXTENDS Integers, Sequences, FiniteSets, TLC

VARIABLES station_file, results_file, today,
          status, err, station_df, results_df, unique_contaminants,
          contaminant, min_val, max_val, meas_range,
          min_date, max_date, date_range,
          filtered_results, selected_stations, station_subset,
          map, trend_df, display

vars == <<station_file, results_file, today,
          status, err, station_df, results_df, unique_contaminants,
          contaminant, min_val, max_val, meas_range,
          min_date, max_date, date_range,
          filtered_results, selected_stations, station_subset,
          map, trend_df, display>>

-----------------------------------------------------------------------------
(* Bounds of the model *)

MaxFilterRows == 3
MaxTrendRows == 3
MaxJoinStations == 3
MaxJoinResults == 3
TicksPerDay == 2
DaysPerMonth == 2
MonthsPerYear == 2

-----------------------------------------------------------------------------
(* Cells *)

NaN == -1
Text == -2
NoId == "<empty>"
NoName == <<>>
NoFile == [parse_ok |-> FALSE, cols |-> {}, rows |-> <<>>, uploaded |-> FALSE]

\* pandas.to_numeric(..., errors="coerce"): a number stays, anything else is NaN
to_numeric(x) == IF x >= 0 THEN x ELSE NaN

\* pandas.to_datetime(..., errors="coerce"): a timestamp stays, anything else is NaT
to_datetime(x) == IF x >= 0 THEN x ELSE NaN

\* Series.astype(str): an empty cell becomes the string "nan"
astype_str(x) == IF x = NoId THEN "nan" ELSE x

isna(x) == x = NaN

-----------------------------------------------------------------------------
(* Calendar *)

TS(y, m, d, t) == ((y * MonthsPerYear + m) * DaysPerMonth + d) * TicksPerDay + t

\* Timestamp.date(): the calendar day of a timestamp
DateOf(ts) == ts \div TicksPerDay

\* pandas.to_datetime(date): midnight of that day
DayStart(d) == d * TicksPerDay

\* Series.dt.to_period("M"): year and month, the day dropped
to_period_M(ts) == ts \div (TicksPerDay * DaysPerMonth)

\* Period.to_timestamp(): first instant of the month
to_timestamp(p) == p * DaysPerMonth * TicksPerDay

-----------------------------------------------------------------------------
(* Sequences *)

Range(s) == {s[i] : i \in 1..Len(s)}

\* boolean-mask indexing df[mask]: the rows that pass, in input order
Mask(df, Keep(_)) == SelectSeq(df, Keep)

\* the elements of a finite set in ascending order of a strict total order
SortedSeq(S, Less(_, _)) ==
    [i \in 1..Cardinality(S) |->
        CHOOSE x \in S : Cardinality({y \in S : Less(y, x)}) = i - 1]

\* Series.unique(): distinct values in order of first appearance
RECURSIVE Unique(_)
Unique(s) ==
    IF s = <<>> THEN <<>>
    ELSE LET h == Unique(SubSeq(s, 1, Len(s) - 1))
             x == s[Len(s)]
         IN  IF x \in Range(h) THEN h ELSE Append(h, x)

\* Series.sum() of a column of numbers
RECURSIVE Sum(_)
Sum(s) == IF s = <<>> THEN 0 ELSE s[1] + Sum(Tail(s))

Column(df, F(_)) == [i \in 1..Len(df) |-> F(df[i])]

Min(S) == CHOOSE x \in S : \A y \in S : x <= y
Max(S) == CHOOSE x \in S : \A y \in S : x >= y

-----------------------------------------------------------------------------
(* Characters, ordering and pattern matching *)

\* code points, the order sorted() uses on str
Ord(c) == CASE c = "(" -> 40 [] c = ")" -> 41 [] c = "." -> 46
            [] c = "P" -> 80 [] c = "b" -> 98 [] c = "p" -> 112

Lower(c) == IF c = "P" THEN "p" ELSE c

\* str < str
RECURSIVE StrLess(_, _)
StrLess(a, b) ==
    IF b = <<>> THEN FALSE
    ELSE IF a = <<>> THEN TRUE
    ELSE IF Ord(a[1]) # Ord(b[1]) THEN Ord(a[1]) < Ord(b[1])
    ELSE StrLess(Tail(a), Tail(b))

\* re.compile: nesting depth after scanning pat, -1 once a ")" has no "("
RECURSIVE ParenDepth(_)
ParenDepth(pat) ==
    IF pat = <<>> THEN 0
    ELSE LET d == ParenDepth(SubSeq(pat, 1, Len(pat) - 1))
             c == pat[Len(pat)]
         IN  IF d < 0 THEN -1
             ELSE IF c = "(" THEN d + 1
             ELSE IF c = ")" THEN d - 1
             ELSE d

\* re.error: unbalanced parenthesis / missing ), unterminated subpattern
RegexError(pat) == ParenDepth(pat) # 0

\* what is left to match of a pattern of literals, "." and groups
Atoms(pat) == SelectSeq(pat, LAMBDA c : c \notin {"(", ")"})

\* one pattern atom against one character, re.IGNORECASE
AtomMatches(a, ch) == a = "." \/ Lower(a) = Lower(ch)

\* re.search(pat, s, re.IGNORECASE) for a pattern that compiles
RegexSearch(pat, s) ==
    LET at == Atoms(pat)
    IN  \E off \in 0..(Len(s) - Len(at)) :
            \A k \in 1..Len(at) : AtomMatches(at[k], s[off + k])

\* Series.str.contains(pat, case=False, na=False) on one cell (regex=True is
\* the default): an empty cell gives False
str_contains(name, pat) ==
    IF name = NoName THEN FALSE ELSE RegexSearch(pat, name)

-----------------------------------------------------------------------------
(* The script, lines 18-142, as one function of what an execution reads:   *)
(* the two uploaded files, the clock, the widget values held by the        *)
(* session (W) and the table the previous execution left (prev).           *)

NoMap == [avg_lat |-> <<0, 0>>, avg_lon |-> <<0, 0>>, markers |-> <<>>]

Blank ==
    [status |-> "idle", err |-> "", station_df |-> <<>>, results_df |-> <<>>,
     unique_contaminants |-> <<>>, contaminant |-> NoName,
     min_val |-> NaN, max_val |-> NaN, meas_range |-> <<>>,
     min_date |-> NaN, max_date |-> NaN, date_range |-> <<>>,
     filtered_results |-> <<>>, selected_stations |-> <<>>,
     station_subset |-> <<>>, map |-> NoMap, trend_df |-> <<>>,
     display |-> {}]

\* streamlit.error(msg); streamlit.stop()
Stop(r, msg) == [r EXCEPT !.status = "stopped", !.err = msg,
                          !.display = r.display \cup {"error"}]

\* an uncaught exception ends the execution; what was rendered stays
Raise(r, exc) == [r EXCEPT !.status = "crashed", !.err = exc,
                           !.display = r.display \cup {"exception"}]

\* a widget keeps the value the session holds for it while it is rendered
\* with the same arguments, and otherwise returns its default
Widget(w, par, default) ==
    IF w.shown /\ w.par = par THEN w.val ELSE default

\* numeric coordinates, no row dropped
NormalizeCoordinatesKeep(rows) ==
    [i \in 1..Len(rows) |->
        [rows[i] EXCEPT
           !.LatitudeMeasure = to_numeric(rows[i].LatitudeMeasure),
           !.LongitudeMeasure = to_numeric(rows[i].LongitudeMeasure)]]

\* lines 27-33: numeric coordinates, rows without them dropped
NormalizeCoordinates(rows) ==
    LET num == [i \in 1..Len(rows) |->
                  [rows[i] EXCEPT
                     !.LatitudeMeasure = to_numeric(rows[i].LatitudeMeasure),
                     !.LongitudeMeasure = to_numeric(rows[i].LongitudeMeasure)]]
    IN  Mask(num, LAMBDA s : ~isna(s.LatitudeMeasure) /\ ~isna(s.LongitudeMeasure))

\* line 39: the name column stands in for a missing identifier column
IdentifierFromName(df) ==
    [i \in 1..Len(df) |->
        [df[i] EXCEPT !.MonitoringLocationIdentifier =
                         astype_str(df[i].MonitoringLocationName)]]

\* lines 44 and 58: the identifier column as strings
IdentifierAsStr(df) ==
    [i \in 1..Len(df) |->
        [df[i] EXCEPT !.MonitoringLocationIdentifier =
                         astype_str(df[i].MonitoringLocationIdentifier)]]

\* line 48
ParseDates(df) ==
    [i \in 1..Len(df) |->
        [df[i] EXCEPT !.ActivityStartDate = to_datetime(df[i].ActivityStartDate)]]

\* line 64: sorted(results_df["CharacteristicName"].dropna().unique())
UniqueContaminants(df) ==
    SortedSeq({df[i].CharacteristicName : i \in 1..Len(df)} \ {NoName}, StrLess)

\* the filter reading what the previous execution left, when it left something
FilterSourceCached(df, prev) == IF prev # <<>> THEN prev ELSE df

\* line 68: the table the contaminant filter reads
FilterSource(df, prev) == df

\* line 68: rows whose characteristic name matches the selected contaminant
ContaminantFilter(df, c) ==
    Mask(df, LAMBDA r : str_contains(r.CharacteristicName, c))

\* line 73
CoerceValues(df) ==
    [i \in 1..Len(df) |->
        [df[i] EXCEPT !.ResultMeasureValue = to_numeric(df[i].ResultMeasureValue)]]

\* lines 73-74: numeric values, rows without one dropped
NumericValues(df) ==
    Mask(CoerceValues(df), LAMBDA r : ~isna(r.ResultMeasureValue))

\* line 87
DropMissingDates(df) == Mask(df, LAMBDA r : ~isna(r.ActivityStartDate))

\* line 99: Series.between(left, right), both ends included
between(x, left, right) == left <= x /\ x <= right

\* lines 96-100
RangeFilter(df, mr, dr) ==
    Mask(df, LAMBDA r :
        /\ r.ResultMeasureValue >= mr[1]
        /\ r.ResultMeasureValue <= mr[2]
        /\ between(r.ActivityStartDate, DayStart(dr[1]), DayStart(dr[2])))

\* line 103
SelectedStations(df) ==
    Unique(Column(df, LAMBDA r : r.MonitoringLocationIdentifier))

\* the stations of the first selected identifier only
StationSubsetFirstOnly(sdf, selected) ==
    Mask(sdf, LAMBDA s : selected # <<>> /\ s.MonitoringLocationIdentifier = selected[1])

\* line 107: station_df[station_df[id].isin(selected_stations)]
StationSubset(sdf, selected) ==
    Mask(sdf, LAMBDA s : s.MonitoringLocationIdentifier \in Range(selected))

\* lines 112-119: the map's centre (sums and count) and one marker per row
FoliumMap(subset) ==
    [avg_lat |-> <<Sum(Column(subset, LAMBDA s : s.LatitudeMeasure)), Len(subset)>>,
     avg_lon |-> <<Sum(Column(subset, LAMBDA s : s.LongitudeMeasure)), Len(subset)>>,
     markers |-> [i \in 1..Len(subset) |->
                    [location |-> <<subset[i].LatitudeMeasure,
                                    subset[i].LongitudeMeasure>>,
                     popup |-> subset[i].MonitoringLocationIdentifier]]]

\* the month of the year, the year dropped (dt.month)
MonthOfYearOnly(ts) == to_period_M(ts) % MonthsPerYear

\* line 126: the grouping period of an observation
MonthOf(ts) == to_period_M(ts)

\* order of the identifier strings of the model
IdOrd(id) == CASE id = "S1" -> 1 [] id = "S2" -> 2 [] id = "nan" -> 3

\* the last instant of the month (to_timestamp(how="end"))
MonthStampEnd(p) == to_timestamp(p) + DaysPerMonth * TicksPerDay - 1

\* line 128: the month of a group as a timestamp
MonthStamp(p) == to_timestamp(p)

GroupLess(a, b) ==
    \/ IdOrd(a[1]) < IdOrd(b[1])
    \/ a[1] = b[1] /\ a[2] < b[2]

\* lines 126-128: groupby([id, Month])[value].mean().reset_index(), the
\* groups in ascending key order, the month as its first instant
TrendTable(df) ==
    LET keys == {<<df[i].MonitoringLocationIdentifier,
                   MonthOf(df[i].ActivityStartDate)>> : i \in 1..Len(df)}
        order == SortedSeq(keys, GroupLess)
        group(k) == Mask(df, LAMBDA r :
                        <<r.MonitoringLocationIdentifier,
                          MonthOf(r.ActivityStartDate)>> = k)
    IN  [i \in 1..Len(order) |->
            [MonitoringLocationIdentifier |-> order[i][1],
             Month |-> MonthStamp(order[i][2]),
             ResultMeasureValue |->
                <<Sum(Column(group(order[i]), LAMBDA r : r.ResultMeasureValue)),
                  Len(group(order[i]))>>]]

\* DataFrame.sort_values("Month"): a stable sort
SortByMonth(df) ==
    LET pos(i) == 1 + Cardinality({j \in 1..Len(df) :
                        \/ df[j].Month < df[i].Month
                        \/ df[j].Month = df[i].Month /\ j < i})
    IN  [p \in 1..Len(df) |-> df[CHOOSE i \in 1..Len(df) : pos(i) = p]]

\* line 131: one plotted series
station_data(tdf, station) ==
    SortByMonth(Mask(tdf, LAMBDA t : t.MonitoringLocationIdentifier = station))

\* lines 102-139: the station subset, the map and the trend of the filtered rows
Outputs(r, f4, subset) ==
    [r EXCEPT !.status = "ok",
              !.filtered_results = f4,
              !.selected_stations = SelectedStations(f4),
              !.station_subset = subset,
              !.map = IF subset # <<>> THEN FoliumMap(subset) ELSE NoMap,
              !.trend_df = IF f4 # <<>> THEN TrendTable(f4) ELSE <<>>,
              !.display = r.display
                  \cup {"selected_stations", "station_subset"}
                  \cup (IF subset # <<>> THEN {"map"} ELSE {"no_stations"})
                  \cup (IF f4 # <<>> THEN {"chart"} ELSE {"no_data"})]

Joined(r, f4) ==
    Outputs(r, f4, StationSubset(r.station_df, SelectedStations(f4)))

\* lines 96-100; date_range[1] does not exist while one end only is picked
Ranged(r, f3) ==
    IF Len(r.date_range) < 2 THEN Raise(r, "IndexError")
    ELSE Joined(r, RangeFilter(f3, r.meas_range, r.date_range))

\* lines 83-94: the slider and the date input, each with its default
Sliders(r, W, lo, hi, d0, d1, f3) ==
    Ranged([r EXCEPT !.min_val = lo, !.max_val = hi,
                     !.meas_range = Widget(W.rng, <<lo, hi>>, <<lo, hi>>),
                     !.min_date = d0, !.max_date = d1,
                     !.date_range = Widget(W.dts, <<d0, d1>>, <<d0, d1>>),
                     !.display = r.display \cup {"slider", "date_input"}],
           f3)

\* lines 77-81: the bounds of the slider
MinVal(f2) == IF f2 # <<>> THEN Min(Range(Column(f2, LAMBDA r : r.ResultMeasureValue)))
              ELSE 0
MaxVal(f2) == IF f2 # <<>> THEN Max(Range(Column(f2, LAMBDA r : r.ResultMeasureValue)))
              ELSE 1

\* lines 88-93: the default ends of the date range
MinDate(f3, td) ==
    IF f3 # <<>> THEN DateOf(Min(Range(Column(f3, LAMBDA r : r.ActivityStartDate))))
    ELSE td
\* the latest date taken as the earliest
MaxDateFromMin(f3, td) == MinDate(f3, td)

MaxDate(f3, td) ==
    IF f3 # <<>> THEN DateOf(Max(Range(Column(f3, LAMBDA r : r.ActivityStartDate))))
    ELSE td

Dated(r, td, W, f2, f3) ==
    Sliders(r, W, MinVal(f2), MaxVal(f2), MinDate(f3, td), MaxDate(f3, td), f3)

Valued(r, td, W, f2) == Dated(r, td, W, f2, DropMissingDates(f2))

\* lines 68-74; a selectbox without options returns None, and str.contains
\* compiles the selected name as a pattern
Matched(r, rf, td, W, prev) ==
    IF r.contaminant = NoName THEN Raise(r, "TypeError")
    ELSE IF RegexError(r.contaminant) THEN Raise(r, "re.error")
    ELSE IF "ResultMeasureValue" \notin rf.cols
    THEN Stop(r, "Test results database must contain 'ResultMeasureValue'.")
    ELSE Valued(r, td, W,
                NumericValues(ContaminantFilter(FilterSource(r.results_df, prev),
                                                r.contaminant)))

\* lines 64-65
Selected(r, rf, td, W, prev, options) ==
    Matched([r EXCEPT !.unique_contaminants = options,
                      !.contaminant =
                          Widget(W.sel, options,
                                 IF options = <<>> THEN NoName ELSE options[1]),
                      !.display = r.display \cup {"selectbox"}],
            rf, td, W, prev)

\* lines 60-63, entered with both tables normalized
Explore(r, rf, td, W, prev) ==
    IF "CharacteristicName" \notin rf.cols
    THEN Stop(r, "Test results database must contain 'CharacteristicName'.")
    ELSE Selected(r, rf, td, W, prev, UniqueContaminants(r.results_df))

\* the results table accepted without its identifier column being checked
ResultsUnchecked(r, rf, td, W, prev) ==
    IF "ActivityStartDate" \notin rf.cols
    THEN Stop(r, "Test results database must contain 'ActivityStartDate'.")
    ELSE Explore([r EXCEPT !.results_df = IdentifierAsStr(ParseDates(rf.rows))],
                 rf, td, W, prev)

\* lines 46-58
Results(r, rf, td, W, prev) ==
    IF "ActivityStartDate" \notin rf.cols
    THEN Stop(r, "Test results database must contain 'ActivityStartDate'.")
    ELSE IF "MonitoringLocationIdentifier" \notin rf.cols
    THEN Stop([r EXCEPT !.results_df = ParseDates(rf.rows)],
              "Test results database must contain 'MonitoringLocationIdentifier'.")
    ELSE Explore([r EXCEPT !.results_df = IdentifierAsStr(ParseDates(rf.rows))],
                 rf, td, W, prev)

\* lines 35-44
Identified(sf, rf, td, W, prev, s1) ==
    IF "MonitoringLocationIdentifier" \in sf.cols
    THEN Results([Blank EXCEPT !.station_df = IdentifierAsStr(s1)], rf, td, W, prev)
    ELSE IF "MonitoringLocationName" \in sf.cols
    THEN Results([Blank EXCEPT !.station_df = IdentifierFromName(s1)], rf, td, W, prev)
    ELSE Stop([Blank EXCEPT !.station_df = s1],
              "Station database must contain 'MonitoringLocationIdentifier' or 'MonitoringLocationName'.")

\* lines 18-33: read both files, check and normalize the coordinates, go on
Script(sf, rf, td, W, prev) ==
    IF ~(sf.uploaded /\ rf.uploaded)
    THEN [Blank EXCEPT !.display = {"upload_prompt"}]
    ELSE IF ~(sf.parse_ok /\ rf.parse_ok)
    THEN Stop(Blank, "Error reading files")
    ELSE IF ~({"LatitudeMeasure", "LongitudeMeasure"} \subseteq sf.cols)
    THEN Stop(Blank, "Station database must include 'LatitudeMeasure' and 'LongitudeMeasure'.")
    ELSE Identified(sf, rf, td, W, prev, NormalizeCoordinates(sf.rows))

-----------------------------------------------------------------------------
(* Uploaded files of the model *)

StationCols == {"MonitoringLocationIdentifier", "MonitoringLocationName",
                "LatitudeMeasure", "LongitudeMeasure"}
ResultCols == {"MonitoringLocationIdentifier", "CharacteristicName",
               "ResultMeasureValue", "ActivityStartDate"}

Csv(cols, rows) == [parse_ok |-> TRUE, cols |-> cols, rows |-> rows, uploaded |-> TRUE]
Unreadable == [parse_ok |-> FALSE, cols |-> {}, rows |-> <<>>, uploaded |-> TRUE]

\* the rows of pool at the positions I and after position k, in the order of pool
RECURSIVE Pick(_, _, _)
Pick(pool, I, k) ==
    IF k >= Len(pool) THEN <<>>
    ELSE (IF k + 1 \in I THEN <<pool[k + 1]>> ELSE <<>>) \o Pick(pool, I, k + 1)

\* the files with one of the given sets of columns whose rows are at most n
\* rows of pool, in the order of pool
Files(colsets, pool, n) ==
    {Csv(cols, Pick(pool, I, 0)) :
        cols \in colsets,
        I \in {J \in SUBSET (1..Len(pool)) : Cardinality(J) <= n}}

SRow(id, name, lat, lon) ==
    [MonitoringLocationIdentifier |-> id, MonitoringLocationName |-> name,
     LatitudeMeasure |-> lat, LongitudeMeasure |-> lon]
RRow(id, name, val, date) ==
    [MonitoringLocationIdentifier |-> id, CharacteristicName |-> name,
     ResultMeasureValue |-> val, ActivityStartDate |-> date]

pb == <<"p", "b">>
Pb == <<"P", "b">>
pp == <<"p">>
pdot == <<"p", ".">>
pgroup == <<"p", "(", "b", ")">>
popen == <<"(">>

D1 == TS(1, 0, 0, 0)
D1t == TS(1, 0, 0, 1)
D2 == TS(1, 0, 1, 0)
D2t == TS(1, 0, 1, 1)
M2 == TS(1, 1, 0, 0)
Y2 == TS(2, 0, 0, 0)

PickableDays == {DateOf(D1), DateOf(D2)}
Todays == {DateOf(TS(2, 1, 0, 0))}

OneStation == Csv(StationCols, <<SRow("S1", "S1", 1, 1)>>)
TwoStations == Csv(StationCols, <<SRow("S1", "S1", 1, 1), SRow("S2", "S2", 2, 2)>>)

\* the filter: names, value cells and date cells of every kind
FilterResultRows ==
    <<RRow("S1", pb, 3, D2t), RRow("S1", pb, 1, D1), RRow("S1", Pb, 2, D2),
      RRow("S1", pdot, 2, D1), RRow("S1", pgroup, 2, D1), RRow("S1", popen, 1, D1),
      RRow("S1", pb, Text, D1), RRow("S1", pb, 2, NaN), RRow("S1", pb, 2, Text),
      RRow("S1", NoName, 2, D1)>>
FilterStationFiles == {OneStation}

\* the trend: stations, days, months and years
TrendResultRows ==
    <<RRow("S1", pb, 3, M2), RRow("S2", pb, 3, D1t), RRow("S1", pb, 1, D1),
      RRow("S1", pb, 2, D2), RRow("S1", pb, 2, Y2), RRow("S2", pb, 1, D1),
      RRow(NoId, pb, 2, D1), RRow("S1", pb, Text, D1), RRow("S2", pp, 2, M2)>>
TrendStationFiles == {TwoStations}

\* the join: identifiers shared, absent and empty, coordinates of every kind
JoinStationRows ==
    <<SRow("S2", "S2", 3, 3), SRow("S1", "S1", 1, 1), SRow("S1", "S1", 2, 2),
      SRow("S2", "S2", NaN, 1), SRow("S1", "S1", 1, Text), SRow(NoId, NoId, 1, 1)>>
JoinResultRows ==
    <<RRow("S1", pb, 1, D1), RRow("S2", pb, 2, D2), RRow(NoId, pb, 1, D1),
      RRow("S1", pb, Text, D1), RRow("S2", pb, 1, Text), RRow("S2", pp, 1, NaN)>>
JoinStationCols == {StationCols, StationCols \ {"MonitoringLocationIdentifier"}}

\* the schema: every set of columns, and a file that cannot be read
SchemaStationFiles ==
    {Unreadable} \cup {Csv(cols, <<SRow("S1", "S1", 1, 1)>>) : cols \in SUBSET StationCols}
SchemaResultFiles ==
    {Unreadable} \cup {Csv(cols, <<RRow("S1", pb, 1, D1), RRow("S1", pp, 2, D2)>>) :
                           cols \in SUBSET ResultCols}

-----------------------------------------------------------------------------
(* State machine: one action per user interaction, each a whole execution *)

\* what the session holds for the three widgets
Widgets ==
    [sel |-> [shown |-> "selectbox" \in display, par |-> unique_contaminants,
              val |-> contaminant],
     rng |-> [shown |-> "slider" \in display, par |-> <<min_val, max_val>>,
              val |-> meas_range],
     dts |-> [shown |-> "date_input" \in display, par |-> <<min_date, max_date>>,
              val |-> date_range]]

Commit(r) ==
    /\ status' = r.status
    /\ err' = r.err
    /\ station_df' = r.station_df
    /\ results_df' = r.results_df
    /\ unique_contaminants' = r.unique_contaminants
    /\ contaminant' = r.contaminant
    /\ min_val' = r.min_val
    /\ max_val' = r.max_val
    /\ meas_range' = r.meas_range
    /\ min_date' = r.min_date
    /\ max_date' = r.max_date
    /\ date_range' = r.date_range
    /\ filtered_results' = r.filtered_results
    /\ selected_stations' = r.selected_stations
    /\ station_subset' = r.station_subset
    /\ map' = r.map
    /\ trend_df' = r.trend_df
    /\ display' = r.display

Rerun(sf, rf, W) ==
    /\ station_file' = sf
    /\ results_file' = rf
    /\ today' = today
    /\ Commit(Script(sf, rf, today, W, filtered_results))

Init ==
    /\ station_file = NoFile
    /\ results_file = NoFile
    /\ today \in Todays
    /\ status = "idle"
    /\ err = ""
    /\ station_df = <<>>
    /\ results_df = <<>>
    /\ unique_contaminants = <<>>
    /\ contaminant = NoName
    /\ min_val = NaN
    /\ max_val = NaN
    /\ meas_range = <<>>
    /\ min_date = NaN
    /\ max_date = NaN
    /\ date_range = <<>>
    /\ filtered_results = <<>>
    /\ selected_stations = <<>>
    /\ station_subset = <<>>
    /\ map = NoMap
    /\ trend_df = <<>>
    /\ display = {"upload_prompt"}

\* line 15; a session uploads each file once
UploadStationFile(files) ==
    /\ ~station_file.uploaded
    /\ \E f \in files : Rerun(f, results_file, Widgets)

\* line 16
UploadResultsFile(files) ==
    /\ ~results_file.uploaded
    /\ \E f \in files : Rerun(station_file, f, Widgets)

\* line 65
SelectContaminant ==
    /\ "selectbox" \in display
    /\ \E c \in Range(unique_contaminants) \ {contaminant} :
          Rerun(station_file, results_file, [Widgets EXCEPT !.sel.val = c])

\* lines 83-84
SetMeasRange ==
    /\ "slider" \in display
    /\ \E lo \in min_val..max_val : \E hi \in lo..max_val :
          /\ <<lo, hi>> # meas_range
          /\ Rerun(station_file, results_file, [Widgets EXCEPT !.rng.val = <<lo, hi>>])

\* line 94, both ends picked
SetDateRange ==
    /\ "date_input" \in display
    /\ \E s \in PickableDays : \E e \in {d \in PickableDays : s <= d} :
          /\ <<s, e>> # date_range
          /\ Rerun(station_file, results_file, [Widgets EXCEPT !.dts.val = <<s, e>>])

\* line 94, the first end picked and the second not yet
PickStartDate ==
    /\ "date_input" \in display
    /\ \E s \in PickableDays :
          /\ <<s>> # date_range
          /\ Rerun(station_file, results_file, [Widgets EXCEPT !.dts.val = <<s>>])

Interact == SelectContaminant \/ SetMeasRange \/ SetDateRange \/ PickStartDate

UploadFilterStations == UploadStationFile(FilterStationFiles)
FilterResultFiles == Files({ResultCols}, FilterResultRows, MaxFilterRows)
UploadFilterResults == UploadResultsFile(FilterResultFiles)
NextFilter == UploadFilterStations \/ UploadFilterResults \/ Interact
SpecFilter == Init /\ [][NextFilter]_vars

UploadTrendStations == UploadStationFile(TrendStationFiles)
TrendResultFiles == Files({ResultCols}, TrendResultRows, MaxTrendRows)
UploadTrendResults == UploadResultsFile(TrendResultFiles)
NextTrend == UploadTrendStations \/ UploadTrendResults \/ Interact
SpecTrend == Init /\ [][NextTrend]_vars

JoinStationFiles == Files(JoinStationCols, JoinStationRows, MaxJoinStations)
JoinResultFiles == Files({ResultCols}, JoinResultRows, MaxJoinResults)
UploadJoinStations == UploadStationFile(JoinStationFiles)
UploadJoinResults == UploadResultsFile(JoinResultFiles)
NextJoin == UploadJoinStations \/ UploadJoinResults \/ Interact
SpecJoin == Init /\ [][NextJoin]_vars

UploadSchemaStations == UploadStationFile(SchemaStationFiles)
UploadSchemaResults == UploadResultsFile(SchemaResultFiles)
NextSchema == UploadSchemaStations \/ UploadSchemaResults \/ Interact
SpecSchema == Init /\ [][NextSchema]_vars

-----------------------------------------------------------------------------
(* Properties *)

Ids(df) == {df[i].MonitoringLocationIdentifier : i \in 1..Len(df)}

\* sub occurs in s as a literal substring, letter case ignored
Contains(s, sub) ==
    \E off \in 0..(Len(s) - Len(sub)) :
        \A k \in 1..Len(sub) : Lower(sub[k]) = Lower(s[off + k])

\* year and month of a timestamp, read off the calendar
YearOf(ts) == ts \div (TicksPerDay * DaysPerMonth * MonthsPerYear)
MonthOfYear(ts) == (ts \div (TicksPerDay * DaysPerMonth)) % MonthsPerYear
FirstOfMonth(ts) == TS(YearOf(ts), MonthOfYear(ts), 0, 0)

\* the filtered rows of one station observed in the month that starts at m
GroupRows(id, m) ==
    Mask(filtered_results, LAMBDA r :
        /\ r.MonitoringLocationIdentifier = id
        /\ FirstOfMonth(r.ActivityStartDate) = m)

C1_Expected ==
    Mask(CoerceValues(results_df), LAMBDA r :
        /\ r.CharacteristicName # NoName
        /\ Contains(r.CharacteristicName, contaminant)
        /\ r.ResultMeasureValue # NaN
        /\ meas_range[1] <= r.ResultMeasureValue
        /\ r.ResultMeasureValue <= meas_range[2]
        /\ r.ActivityStartDate # NaN
        /\ date_range[1] <= DateOf(r.ActivityStartDate)
        /\ DateOf(r.ActivityStartDate) <= date_range[2])

\* C1: the filtered result set is exactly the input rows whose name contains
\* the contaminant as a case-insensitive substring, whose value is present and
\* within [min, max], and whose date is present and on a day within
\* [start, end], the end day included.
C1_FilterExact == status = "ok" => filtered_results = C1_Expected

\* C2, as claimed: every station of the subset has the identifier of some
\* filtered row, and every identifier of the filtered set that the station
\* table has appears exactly once in the subset.
C2_OncePerIdentifier ==
    status = "ok" =>
        /\ Ids(station_subset) \subseteq Ids(filtered_results)
        /\ \A id \in Ids(filtered_results) \cap Ids(station_df) :
              Len(Mask(station_subset,
                       LAMBDA s : s.MonitoringLocationIdentifier = id)) = 1

\* C2, amended: every station of the subset has the identifier of some
\* filtered row, and the subset holds, in the order of the station table, each
\* row of the station table whose identifier is in the filtered set exactly
\* once, so an identifier that k station rows share appears k times.
C2_JoinRows ==
    status = "ok" =>
        /\ Ids(station_subset) \subseteq Ids(filtered_results)
        /\ station_subset =
              Mask(station_df, LAMBDA s :
                  s.MonitoringLocationIdentifier \in Ids(filtered_results))

C2_Witness ==
    /\ status = "ok"
    /\ \E i, j \in 1..Len(station_subset) :
          /\ i # j
          /\ station_subset[i].MonitoringLocationIdentifier =
                station_subset[j].MonitoringLocationIdentifier
    /\ Ids(station_df) \ Ids(filtered_results) # {}

\* C3: each trend point's mean is the sum over the count of exactly the
\* filtered rows of its station in its year and month, and the group sizes add
\* up to the number of filtered rows.
C3_Aggregation ==
    status = "ok" =>
        /\ \A i \in 1..Len(trend_df) :
              LET g == GroupRows(trend_df[i].MonitoringLocationIdentifier,
                                 trend_df[i].Month)
              IN  /\ g # <<>>
                  /\ trend_df[i].ResultMeasureValue =
                        <<Sum(Column(g, LAMBDA r : r.ResultMeasureValue)), Len(g)>>
        /\ Sum(Column(trend_df, LAMBDA t : t.ResultMeasureValue[2]))
              = Len(filtered_results)

C3_Witness ==
    /\ status = "ok"
    /\ \E i \in 1..Len(trend_df) :
          /\ trend_df[i].ResultMeasureValue[2] >= 2
          /\ trend_df[i].ResultMeasureValue[1] % trend_df[i].ResultMeasureValue[2] # 0
    /\ \E i, j \in 1..Len(filtered_results) :
          /\ filtered_results[i].MonitoringLocationIdentifier =
                filtered_results[j].MonitoringLocationIdentifier
          /\ MonthOfYear(filtered_results[i].ActivityStartDate) =
                MonthOfYear(filtered_results[j].ActivityStartDate)
          /\ YearOf(filtered_results[i].ActivityStartDate) #
                YearOf(filtered_results[j].ActivityStartDate)

C4_ValidStationRows ==
    {i \in 1..Len(station_file.rows) :
        /\ station_file.rows[i].LatitudeMeasure >= 0
        /\ station_file.rows[i].LongitudeMeasure >= 0}

C4_ValidResultRows ==
    {i \in 1..Len(results_file.rows) :
        /\ results_file.rows[i].ResultMeasureValue >= 0
        /\ results_file.rows[i].ActivityStartDate >= 0}

\* C4: every station of the subset is a station row of the file with numeric
\* latitude and longitude, every filtered row is a result row of the file with
\* a numeric value and a parsed date, and the trend counts the filtered rows
\* only.
C4_MissingDataExcluded ==
    status = "ok" =>
        /\ \A j \in 1..Len(station_subset) :
              \E i \in C4_ValidStationRows :
                  /\ station_subset[j].LatitudeMeasure =
                        station_file.rows[i].LatitudeMeasure
                  /\ station_subset[j].LongitudeMeasure =
                        station_file.rows[i].LongitudeMeasure
        /\ Len(station_subset) <= Cardinality(C4_ValidStationRows)
        /\ \A j \in 1..Len(filtered_results) :
              \E i \in C4_ValidResultRows :
                  /\ filtered_results[j].ResultMeasureValue =
                        results_file.rows[i].ResultMeasureValue
                  /\ filtered_results[j].ActivityStartDate =
                        results_file.rows[i].ActivityStartDate
                  /\ filtered_results[j].CharacteristicName =
                        results_file.rows[i].CharacteristicName
        /\ Len(filtered_results) <= Cardinality(C4_ValidResultRows)
        /\ Sum(Column(trend_df, LAMBDA t : t.ResultMeasureValue[2]))
              = Len(filtered_results)

C4_Witness ==
    /\ status = "ok"
    /\ station_subset # <<>>
    /\ trend_df # <<>>
    /\ \E i \in (1..Len(station_file.rows)) \ C4_ValidStationRows :
          astype_str(station_file.rows[i].MonitoringLocationIdentifier)
             \in Range(selected_stations)
    /\ \E i \in (1..Len(results_file.rows)) \ C4_ValidResultRows :
          str_contains(results_file.rows[i].CharacteristicName, contaminant)

C5_RequiredMissing ==
    \/ ~station_file.parse_ok
    \/ ~results_file.parse_ok
    \/ "LatitudeMeasure" \notin station_file.cols
    \/ "LongitudeMeasure" \notin station_file.cols
    \/ station_file.cols \cap
          {"MonitoringLocationIdentifier", "MonitoringLocationName"} = {}
    \/ "ActivityStartDate" \notin results_file.cols
    \/ "MonitoringLocationIdentifier" \notin results_file.cols
    \/ "CharacteristicName" \notin results_file.cols

\* the message of the first check that fails, in the order of the checks
C5_FirstFailure ==
    IF ~station_file.parse_ok \/ ~results_file.parse_ok
    THEN "Error reading files"
    ELSE IF {"LatitudeMeasure", "LongitudeMeasure"} \ station_file.cols # {}
    THEN "Station database must include 'LatitudeMeasure' and 'LongitudeMeasure'."
    ELSE IF station_file.cols \cap
               {"MonitoringLocationIdentifier", "MonitoringLocationName"} = {}
    THEN "Station database must contain 'MonitoringLocationIdentifier' or 'MonitoringLocationName'."
    ELSE IF "ActivityStartDate" \notin results_file.cols
    THEN "Test results database must contain 'ActivityStartDate'."
    ELSE IF "MonitoringLocationIdentifier" \notin results_file.cols
    THEN "Test results database must contain 'MonitoringLocationIdentifier'."
    ELSE "Test results database must contain 'CharacteristicName'."

\* C5: with both files uploaded, a file that cannot be read or a missing
\* required column stops the execution at the first check that fails: its
\* error message is shown, and no widget, station subset, map or trend is.
C5_FailureIsTerminal ==
    (station_file.uploaded /\ results_file.uploaded /\ C5_RequiredMissing) =>
        /\ status = "stopped"
        /\ err = C5_FirstFailure
        /\ display = {"error"}
        /\ filtered_results = <<>>
        /\ selected_stations = <<>>
        /\ station_subset = <<>>
        /\ map = NoMap
        /\ trend_df = <<>>

C5_Witness ==
    /\ status = "stopped"
    /\ err = "Test results database must contain 'MonitoringLocationIdentifier'."
    /\ station_df # <<>>

C6_IdCell(row) ==
    IF "MonitoringLocationIdentifier" \in station_file.cols
    THEN row.MonitoringLocationIdentifier
    ELSE row.MonitoringLocationName

\* C6: the station table holds exactly the station rows of the file with
\* numeric coordinates and a present identifier (or name, when the name stands
\* in for it), and no station without one is in the subset.
C6_MissingIdentifierDropped ==
    status = "ok" =>
        /\ Len(station_df) =
              Cardinality({i \in C4_ValidStationRows :
                              C6_IdCell(station_file.rows[i]) # NoId})
        /\ astype_str(NoId) \notin Ids(station_subset)

C7_Dated(rows) ==
    {rows[i].ActivityStartDate : i \in 1..Len(rows)} \ {NaN}

C7_InValueRange ==
    Mask(CoerceValues(results_df), LAMBDA r :
        /\ str_contains(r.CharacteristicName, contaminant)
        /\ r.ResultMeasureValue # NaN
        /\ meas_range[1] <= r.ResultMeasureValue
        /\ r.ResultMeasureValue <= meas_range[2])

C7_WithValue ==
    Mask(CoerceValues(results_df), LAMBDA r :
        /\ str_contains(r.CharacteristicName, contaminant)
        /\ r.ResultMeasureValue # NaN)

C7_Defaults(rows) ==
    /\ min_date <= max_date
    /\ IF C7_Dated(rows) = {}
       THEN min_date = today /\ max_date = today
       ELSE /\ min_date = DateOf(Min(C7_Dated(rows)))
            /\ max_date = DateOf(Max(C7_Dated(rows)))

\* C7, as claimed: the default date bounds are the earliest and latest date
\* among the rows that pass the name filter and whose value is within the
\* selected value range, today when there are none.
C7_DefaultsWithinValueRange ==
    "date_input" \in display => C7_Defaults(C7_InValueRange)

\* C7, amended: the default date bounds are the days of the earliest and
\* latest observation among the rows that pass the name filter and have a
\* numeric value, whatever value range is selected, today when there are
\* none; the start is never after the end.
C7_DefaultsBeforeValueRange ==
    "date_input" \in display => C7_Defaults(C7_WithValue)

C7_Witness ==
    /\ status = "ok"
    /\ meas_range # <<min_val, max_val>>
    /\ min_date < max_date
    /\ C7_Dated(C7_InValueRange) # C7_Dated(C7_WithValue)

\* C8: the trend has one point for each station and month that has filtered
\* rows and no other, no two points share station and month, each month is
\* the first instant of its month, and each plotted series ascends by month.
C8_TrendPoints ==
    status = "ok" =>
        /\ {<<trend_df[i].MonitoringLocationIdentifier, trend_df[i].Month>> :
               i \in 1..Len(trend_df)}
             = {<<filtered_results[i].MonitoringLocationIdentifier,
                  FirstOfMonth(filtered_results[i].ActivityStartDate)>> :
                   i \in 1..Len(filtered_results)}
        /\ \A i, j \in 1..Len(trend_df) :
              (/\ trend_df[i].MonitoringLocationIdentifier =
                     trend_df[j].MonitoringLocationIdentifier
               /\ trend_df[i].Month = trend_df[j].Month) => i = j
        /\ \A id \in Ids(trend_df) :
              LET series == station_data(trend_df, id)
              IN  /\ series # <<>>
                  /\ \A k \in 1..(Len(series) - 1) :
                        series[k].Month < series[k + 1].Month

C8_Witness ==
    /\ status = "ok"
    /\ Len(trend_df) < Len(filtered_results)
    /\ \E id \in Ids(trend_df) : Len(station_data(trend_df, id)) >= 2
    /\ \E i, j \in 1..Len(filtered_results) :
          /\ i < j
          /\ filtered_results[i].MonitoringLocationIdentifier =
                filtered_results[j].MonitoringLocationIdentifier
          /\ filtered_results[i].ActivityStartDate >
                filtered_results[j].ActivityStartDate

\* C9: every offered contaminant name can be used as the filter, every row
\* that has exactly that name passes the name condition, and no row with an
\* empty name does.
C9_OfferedNameMatchesItself ==
    "selectbox" \in display =>
        /\ err # "re.error"
        /\ \A n \in Range(unique_contaminants) :
              /\ ~RegexError(n)
              /\ \A i \in 1..Len(results_df) :
                    /\ results_df[i].CharacteristicName = n
                          => str_contains(results_df[i].CharacteristicName, n)
                    /\ results_df[i].CharacteristicName = NoName
                          => ~str_contains(results_df[i].CharacteristicName, n)

C10_Fresh == Script(station_file, results_file, today, Widgets, <<>>)

=============================================================================
